---- MODULE Spec2Model ----
(***************************************************************************)
(* A model of the stocks crate: the four signal calculations of lib.rs     *)
(* (min, max, price_diff, n_window_sma) behind the AsyncStockSignal trait, *)
(* and the per-symbol loop of main.rs.                                     *)
(*                                                                         *)
(* f64 values are modelled as tagged triples:                              *)
(*   <<"fin", n, d>>   the finite value n/d (lowest terms, d > 0); +0.0 is *)
(*                     <<"fin", 0, 1>>                                     *)
(*   <<"nzero", 0, 1>> -0.0                                                *)
(*   <<"inf", s, 1>>   s * infinity, s in {1, -1}                          *)
(*   <<"max", s, 1>>   s * f64::MAX (f64::MIN is -f64::MAX)                *)
(*   <<"nan", 0, 1>>   NaN                                                 *)
(* Finite arithmetic is exact (rounding is not modelled); the special      *)
(* values follow IEEE 754 as Rust's f64 does.  f64::MAX and f64::MIN occur *)
(* only as the fold seeds of min and max and as their results: the code    *)
(* applies no arithmetic to them.                                          *)
(***************************************************************************)
EXTENDS Integers, Sequences, FiniteSets, TLC

VARIABLES series, window_size, called, result,
          symbols, idx, stdout, fetched, mpc,
          other, frames, locals

sigvars  == <<series, window_size, called, result>>
mainvars == <<symbols, idx, stdout, fetched, mpc>>
concvars == <<other, frames, locals>>
vars     == <<series, window_size, called, result,
             symbols, idx, stdout, fetched, mpc,
             other, frames, locals>>

(***************************************************************************)
(* Bounds of the model.                                                    *)
(***************************************************************************)
MaxLen    == 3    \* longest series passed to a signal
MaxWindow == 4    \* largest window_size of a WindowedSMA
MaxSymbols == 2   \* most symbols on the command line
MaxQuotes  == 2   \* most quotes in one provider response
MaxConcLen    == 2   \* longest series of the concurrent calls
MaxConcWindow == 2   \* largest window_size of the shared WindowedSMA

(***************************************************************************)
(* f64                                                                     *)
(***************************************************************************)
Abs(i) == IF i < 0 THEN -i ELSE i

RECURSIVE GCD(_, _)
GCD(a, b) == IF b = 0 THEN a ELSE GCD(b, a % b)

NaN      == <<"nan", 0, 1>>
PosZero  == <<"fin", 0, 1>>
NegZero  == <<"nzero", 0, 1>>
Inf(s)   == <<"inf", s, 1>>
F64_MAX  == <<"max", 1, 1>>
F64_MIN  == <<"max", -1, 1>>

\* the finite value n/d, d /= 0, in lowest terms
Fin(n, d) ==
    IF n = 0 THEN PosZero
    ELSE LET g == GCD(Abs(n), Abs(d))
             s == IF d < 0 THEN -1 ELSE 1
         IN  <<"fin", (s * n) \div g, Abs(d) \div g>>

IsNaN(x)  == x[1] = "nan"
IsInf(x)  == x[1] = "inf"
IsZero(x) == x = PosZero \/ x = NegZero
Num(x)    == IF x[1] = "fin" THEN x[2] ELSE 0
Den(x)    == IF x[1] = "fin" THEN x[3] ELSE 1

\* the sign bit, as 1 or -1
Sign(x) ==
    CASE x[1] = "fin"   -> IF x[2] < 0 THEN -1 ELSE 1
      [] x[1] = "nzero" -> -1
      [] OTHER          -> x[2]

SignedZero(s) == IF s < 0 THEN NegZero ELSE PosZero

\* position among the classes -inf < -MAX < finite < MAX < inf
Level(x) ==
    CASE x[1] = "inf" -> 2 * x[2]
      [] x[1] = "max" -> x[2]
      [] OTHER        -> 0

\* a < b on f64: false when either is NaN; -0.0 and +0.0 are not ordered
FLt(a, b) ==
    /\ ~IsNaN(a)
    /\ ~IsNaN(b)
    /\ \/ Level(a) < Level(b)
       \/ Level(a) = 0 /\ Level(b) = 0 /\ Num(a) * Den(b) < Num(b) * Den(a)

\* a == b on f64: NaN equals nothing, -0.0 == +0.0
FEq(a, b) == ~IsNaN(a) /\ ~IsNaN(b) /\ ~FLt(a, b) /\ ~FLt(b, a)

\* a <= b on f64
FLe(a, b) == FLt(a, b) \/ FEq(a, b)

FNeg(x) ==
    CASE x[1] = "nan"   -> NaN
      [] x[1] = "nzero" -> PosZero
      [] x[1] = "fin"   -> IF x[2] = 0 THEN NegZero ELSE <<"fin", -x[2], x[3]>>
      [] OTHER          -> <<x[1], -x[2], 1>>

\* a + b on f64
FAdd(a, b) ==
    IF IsNaN(a) \/ IsNaN(b) THEN NaN
    ELSE IF IsInf(a) /\ IsInf(b) THEN (IF a = b THEN a ELSE NaN)
    ELSE IF IsInf(a) THEN a
    ELSE IF IsInf(b) THEN b
    ELSE IF IsZero(a) /\ IsZero(b)
         THEN (IF a = NegZero /\ b = NegZero THEN NegZero ELSE PosZero)
    ELSE Fin(Num(a) * Den(b) + Num(b) * Den(a), Den(a) * Den(b))

\* a - b on f64
FSub(a, b) == FAdd(a, FNeg(b))

\* a * b on f64
FMul(a, b) ==
    IF IsNaN(a) \/ IsNaN(b) THEN NaN
    ELSE IF (IsInf(a) /\ IsZero(b)) \/ (IsZero(a) /\ IsInf(b)) THEN NaN
    ELSE IF IsInf(a) \/ IsInf(b) THEN Inf(Sign(a) * Sign(b))
    ELSE IF IsZero(a) \/ IsZero(b) THEN SignedZero(Sign(a) * Sign(b))
    ELSE Fin(Num(a) * Num(b), Den(a) * Den(b))

\* a / b on f64: division by zero is not a fault, it yields an infinity or NaN
FDiv(a, b) ==
    IF IsNaN(a) \/ IsNaN(b) THEN NaN
    ELSE IF IsInf(a) /\ IsInf(b) THEN NaN
    ELSE IF IsZero(a) /\ IsZero(b) THEN NaN
    ELSE IF IsInf(a) \/ IsZero(b) THEN Inf(Sign(a) * Sign(b))
    ELSE IF IsInf(b) \/ IsZero(a) THEN SignedZero(Sign(a) * Sign(b))
    ELSE Fin(Num(a) * Den(b), Den(a) * Num(b))

\* usize as f64
AsF64(k) == Fin(k, 1)

\* f64::min(a, b): a NaN operand is ignored; operands that compare equal
\* (+0.0 and -0.0) may yield either one.  The set of possible results.
f64_min(a, b) ==
    IF IsNaN(a) THEN {b}
    ELSE IF IsNaN(b) THEN {a}
    ELSE IF FLt(a, b) THEN {a}
    ELSE IF FLt(b, a) THEN {b}
    ELSE {a, b}

\* f64::max(a, b), likewise
f64_max(a, b) ==
    IF IsNaN(a) THEN {b}
    ELSE IF IsNaN(b) THEN {a}
    ELSE IF FLt(a, b) THEN {b}
    ELSE IF FLt(b, a) THEN {a}
    ELSE {a, b}

(***************************************************************************)
(* Option, panics and slices                                               *)
(***************************************************************************)
None    == <<"None">>
Some(v) == <<"Some", v>>
Panic   == <<"Panic">>

IsSome(o) == o[1] = "Some"
IsNone(o) == o[1] = "None"

\* Option::unwrap panics on None and yields the payload of Some
unwrap_panics(o) == ~IsSome(o)
unwrap(o)        == o[2]

\* Option::unwrap_or
unwrap_or(o, dflt) == IF IsSome(o) THEN o[2] ELSE dflt

is_empty(s) == Len(s) = 0
first(s)    == IF Len(s) = 0 THEN None ELSE Some(s[1])
last(s)     == IF Len(s) = 0 THEN None ELSE Some(s[Len(s)])

\* slice::windows(n) panics when n = 0; otherwise it yields every contiguous
\* window of length n by ascending start, and none when n > len
windows_panics(n) == n = 0
\* mutant: the last window is dropped
windows_drop_last(n, s) ==
    IF n >= Len(s) THEN <<>>
    ELSE [i \in 1..(Len(s) - n) |-> SubSeq(s, i, i + n - 1)]

windows(n, s) ==
    IF n > Len(s) THEN <<>>
    ELSE [i \in 1..(Len(s) - n + 1) |-> SubSeq(s, i, i + n - 1)]

\* Iterator::sum::<f64>: a left fold of + from 0.0
RECURSIVE sum(_)
sum(v) == IF Len(v) = 0 THEN PosZero
          ELSE FAdd(sum(SubSeq(v, 1, Len(v) - 1)), v[Len(v)])

\* iter().fold(seed, |acc, q| acc.min(*q)): the set of possible results,
\* from the set of possible accumulators
RECURSIVE fold_min(_, _)
fold_min(accs, s) ==
    IF Len(s) = 0 THEN accs
    ELSE fold_min(UNION {f64_min(acc, s[1]) : acc \in accs}, Tail(s))

RECURSIVE fold_max(_, _)
fold_max(accs, s) ==
    IF Len(s) = 0 THEN accs
    ELSE fold_max(UNION {f64_max(acc, s[1]) : acc \in accs}, Tail(s))

(***************************************************************************)
(* lib.rs: the signal calculations                                         *)
(***************************************************************************)
\* mutant: the fold runs on the empty series too
min_unguarded(s) == {Some(m) : m \in fold_min({F64_MAX}, s)}

\* min: the set of values the call may return
min(s) ==
    IF ~is_empty(s)
    THEN {Some(m) : m \in fold_min({F64_MAX}, s)}
    ELSE {None}

\* max: the set of values the call may return
max(s) ==
    IF ~is_empty(s)
    THEN {Some(m) : m \in fold_max({F64_MIN}, s)}
    ELSE {None}

\* mutant: a zero first price is kept as the denominator
price_diff_denominator_raw(f) == f

\* price_diff, line 90: the denominator of the relative difference
price_diff_denominator(f) == IF FEq(f, PosZero) THEN Fin(1, 1) ELSE f

\* mutant: the pair in the order the comment above price_diff gives
price_diff_swapped(s) ==
    IF ~is_empty(s)
    THEN LET f        == unwrap(first(s))
             l        == unwrap(last(s))
             abs_diff == FSub(l, f)
             rel_diff == FDiv(abs_diff, price_diff_denominator(f))
         IN  Some(<<rel_diff, abs_diff>>)
    ELSE None

price_diff(s) ==
    IF ~is_empty(s)
    THEN IF unwrap_panics(first(s)) \/ unwrap_panics(last(s)) THEN Panic
         ELSE LET f        == unwrap(first(s))
                  l        == unwrap(last(s))
                  abs_diff == FSub(l, f)
                  rel_diff == FDiv(abs_diff, price_diff_denominator(f))
              IN  Some(<<abs_diff, rel_diff>>)
    ELSE None

\* the mean of each window, as n_window_sma maps it
window_means(w) == [i \in 1..Len(w) |-> FDiv(sum(w[i]), AsF64(Len(w[i])))]

\* mutant: a window of one element is accepted
n_window_sma_from_one(n, s) ==
    IF ~is_empty(s) /\ n > 0
    THEN IF windows_panics(n) THEN Panic
         ELSE Some(window_means(windows(n, s)))
    ELSE None

\* mutant: the window size is not checked
n_window_sma_any_n(n, s) ==
    IF ~is_empty(s)
    THEN IF windows_panics(n) THEN Panic
         ELSE Some(window_means(windows(n, s)))
    ELSE None

\* mutant: the sum is not restarted for each window
n_window_sma_running(n, s) ==
    IF ~is_empty(s) /\ n > 1
    THEN IF windows_panics(n) THEN Panic
         ELSE LET w == windows(n, s)
              IN  Some([i \in 1..Len(w) |->
                           FDiv(sum(SubSeq(s, 1, i + n - 1)), AsF64(n))])
    ELSE None

n_window_sma(n, s) ==
    IF ~is_empty(s) /\ n > 1
    THEN IF windows_panics(n) THEN Panic
         ELSE Some(window_means(windows(n, s)))
    ELSE None

\* AsyncStockSignal::calculate of the signal sig (a WindowedSMA of window
\* size n): the set of values the call may return
calculate(sig, n, s) ==
    CASE sig = "PriceDifference" -> {price_diff(s)}
      [] sig = "MinPrice"        -> min(s)
      [] sig = "MaxPrice"        -> max(s)
      [] sig = "WindowedSMA"     -> {n_window_sma(n, s)}

(***************************************************************************)
(* The signals behind AsyncStockSignal::calculate.  A signal is called on  *)
(* a series; WindowedSMA carries its window_size.  `called` names the      *)
(* signal of the last call and `result` what that call returned.           *)
(***************************************************************************)
Prices == {Fin(-1, 1), NegZero, PosZero, Fin(1, 1), Fin(2, 1),
           Inf(1), Inf(-1), NaN}

SeqsUpTo(S, k) == UNION {[1..m -> S] : m \in 0..k}

SigInit ==
    /\ series \in SeqsUpTo(Prices, MaxLen)
    /\ window_size \in 0..MaxWindow
    /\ called = "none"
    /\ result = None

PriceDifference_calculate ==
    /\ result' = price_diff(series)
    /\ called' = "PriceDifference"
    /\ UNCHANGED <<series, window_size>>

MinPrice_calculate ==
    /\ \E r \in min(series) : result' = r
    /\ called' = "MinPrice"
    /\ UNCHANGED <<series, window_size>>

MaxPrice_calculate ==
    /\ \E r \in max(series) : result' = r
    /\ called' = "MaxPrice"
    /\ UNCHANGED <<series, window_size>>

WindowedSMA_calculate ==
    /\ result' = n_window_sma(window_size, series)
    /\ called' = "WindowedSMA"
    /\ UNCHANGED <<series, window_size>>

\* the callers of the concurrent calls, and what they hold before any call
Threads   == {"t1", "t2"}
IdleFrame == [pc |-> "idle", sig |-> "none", arg |-> "series", pos |-> 0,
              ret |-> None, overlapped |-> FALSE]
IdleAcc   == [fold |-> PosZero, out |-> <<>>]

MainIdle ==
    /\ symbols = <<>>
    /\ idx = 0
    /\ stdout = <<>>
    /\ fetched = <<>>
    /\ mpc = "idle"

ConcIdle ==
    /\ other = <<>>
    /\ frames = [t \in Threads |-> IdleFrame]
    /\ locals = [t \in Threads |-> IdleAcc]

Init == SigInit /\ MainIdle /\ ConcIdle

Next ==
    \/ PriceDifference_calculate /\ UNCHANGED <<mainvars, concvars>>
    \/ MinPrice_calculate /\ UNCHANGED <<mainvars, concvars>>
    \/ MaxPrice_calculate /\ UNCHANGED <<mainvars, concvars>>
    \/ WindowedSMA_calculate /\ UNCHANGED <<mainvars, concvars>>

Spec == Init /\ [][Next]_vars

(***************************************************************************)
(* lib.rs: fetch_closing_data.  The provider's answer is either a failure  *)
(* ("Err": get_quote_history or quotes() failed) or a list of quotes, each *)
(* <<timestamp, adjclose>>.                                                *)
(***************************************************************************)
Err   == <<"Err">>
Ok(v) == <<"Ok", v>>

\* a quote goes after every quote whose timestamp is not greater: stable
RECURSIVE insert_by_timestamp(_, _)
insert_by_timestamp(q, sorted) ==
    IF Len(sorted) = 0 THEN <<q>>
    ELSE IF sorted[Len(sorted)][1] <= q[1] THEN Append(sorted, q)
    ELSE Append(insert_by_timestamp(q, SubSeq(sorted, 1, Len(sorted) - 1)),
                sorted[Len(sorted)])

\* quotes.sort_by_cached_key(|q| q.timestamp)
RECURSIVE sort_by_cached_key(_)
sort_by_cached_key(qs) ==
    IF Len(qs) = 0 THEN <<>>
    ELSE insert_by_timestamp(qs[Len(qs)],
                             sort_by_cached_key(SubSeq(qs, 1, Len(qs) - 1)))

fetch_closing_data(response) ==
    IF response = Err THEN Err
    ELSE LET quotes == response[2]
         IN  IF ~is_empty(quotes)
             THEN LET sorted == sort_by_cached_key(quotes)
                  IN  Ok([i \in 1..Len(sorted) |-> sorted[i][2]])
             ELSE Ok(<<>>)

(***************************************************************************)
(* main.rs: main.  stdout holds the lines printed, the CSV header first;   *)
(* fetched records what fetch_closing_data returned for each symbol        *)
(* processed so far.                                                       *)
(***************************************************************************)
SmaWindow == 30

Tickers     == {"AAPL", "MSFT"}
Timestamps  == {1, 2}
AdjCloses   == {PosZero, Fin(1, 1)}
Quotes      == Timestamps \X AdjCloses
Responses   == {Err} \cup {Ok(qs) : qs \in SeqsUpTo(Quotes, MaxQuotes)}

Header == <<"period start", "symbol", "price", "change %", "min", "max",
            "30d avg">>

\* mutant: a series of one price prints no row
prints_row_multi(closes) == Len(closes) > 1

\* line 33: a row is printed for this series
prints_row(closes) == ~is_empty(closes)

\* lines 35-51: the values of the row printed for a symbol; the set of rows
\* the iteration may print, or {Panic} when an unwrap fails
row_of(symbol, closes) ==
    IF \E o \in max(closes) \cup min(closes) : unwrap_panics(o) THEN {Panic}
    ELSE LET last_price == unwrap_or(last(closes), PosZero)
             pct_change == unwrap_or(price_diff(closes), <<PosZero, PosZero>>)[2]
             sma        == unwrap_or(n_window_sma(SmaWindow, closes), <<>>)
         IN  {<<"row", symbol, last_price, FMul(pct_change, Fin(100, 1)),
                unwrap(pmin), unwrap(pmax), unwrap_or(last(sma), PosZero)>> :
                pmax \in max(closes), pmin \in min(closes)}

MainInit ==
    /\ symbols \in UNION {[1..m -> Tickers] : m \in 1..MaxSymbols}
    /\ idx = 1
    /\ stdout = <<>>
    /\ fetched = <<>>
    /\ mpc = "start"
    /\ series = <<>>
    /\ window_size = 0
    /\ called = "none"
    /\ result = None
    /\ ConcIdle

\* line 28
main_header ==
    /\ mpc = "start"
    /\ stdout' = Append(stdout, Header)
    /\ mpc' = "loop"
    /\ UNCHANGED <<symbols, idx, fetched>>

\* lines 29-53, one iteration of the loop: the fetch fails and expect panics,
\* or it yields a series
main_iteration ==
    /\ mpc = "loop"
    /\ idx <= Len(symbols)
    /\ \E response \in Responses :
         LET got == fetch_closing_data(response)
         IN  IF got = Err
             THEN /\ mpc' = "panicked"
                  /\ UNCHANGED <<symbols, idx, stdout, fetched>>
             ELSE LET closes == got[2]
                  IN  /\ fetched' = Append(fetched, closes)
                      /\ idx' = idx + 1
                      /\ UNCHANGED symbols
                      /\ IF prints_row(closes)
                         THEN \E row \in row_of(symbols[idx], closes) :
                                IF row = Panic
                                THEN mpc' = "panicked" /\ UNCHANGED stdout
                                ELSE /\ stdout' = Append(stdout, row)
                                     /\ UNCHANGED mpc
                         ELSE UNCHANGED <<stdout, mpc>>

\* the loop is over: main returns
main_return ==
    /\ mpc = "loop"
    /\ idx > Len(symbols)
    /\ mpc' = "done"
    /\ UNCHANGED <<symbols, idx, stdout, fetched>>

MainNext ==
    \/ main_header /\ UNCHANGED <<sigvars, concvars>>
    \/ main_iteration /\ UNCHANGED <<sigvars, concvars>>
    \/ main_return /\ UNCHANGED <<sigvars, concvars>>

SpecMain == MainInit /\ [][MainNext]_vars

(***************************************************************************)
(* Concurrent calls of calculate.  The signals are shared (&self), and so  *)
(* may the series be (&[f64]): each thread calls one signal on `series` or *)
(* on `other`, and the calls interleave at the iterations of their loops.  *)
(* What a call accumulates (the fold's acc, the collected Vec) lives in    *)
(* the frame of that call.  frames[t].overlapped records that the call of  *)
(* t ran while another call was running.                                   *)
(***************************************************************************)
Signals    == {"PriceDifference", "MinPrice", "MaxPrice", "WindowedSMA"}
ConcPrices == {Fin(1, 1), Fin(2, 1)}

\* the series a call was given
Input(arg) == IF arg = "series" THEN series ELSE other

\* mutant: every call accumulates in one shared place
frame_of_shared(t) == "t1"

\* where the accumulators of the call of thread t live: in its own frame
frame_of(t) == t

\* the emptiness and window-size checks the functions start with
returns_none(sig, s) ==
    IF sig = "WindowedSMA" THEN ~(~is_empty(s) /\ window_size > 1)
    ELSE ~(~is_empty(s))

\* the seeds of the folds and the empty collection
fresh_acc(sig) ==
    [fold |-> IF sig = "MinPrice" THEN F64_MAX
              ELSE IF sig = "MaxPrice" THEN F64_MIN ELSE PosZero,
     out  |-> <<>>]

ConcInit ==
    /\ series \in SeqsUpTo(ConcPrices, MaxConcLen)
    /\ other \in SeqsUpTo(ConcPrices, MaxConcLen)
    /\ window_size \in 0..MaxConcWindow
    /\ called = "none"
    /\ result = None
    /\ frames = [t \in Threads |-> IdleFrame]
    /\ locals = [t \in Threads |-> IdleAcc]
    /\ MainIdle

\* thread t calls calculate of signal sig on the series arg names
calculate_begin(t) ==
    /\ frames[t].pc = "idle"
    /\ \E sig \in Signals, arg \in {"series", "other"} :
         LET busy == {u \in Threads \ {t} : frames[u].pc = "run"}
         IN  IF returns_none(sig, Input(arg))
             THEN /\ frames' = [frames EXCEPT ![t] =
                        [pc |-> "done", sig |-> sig, arg |-> arg, pos |-> 0,
                         ret |-> None, overlapped |-> busy # {}]]
                  /\ UNCHANGED locals
             ELSE /\ frames' = [u \in Threads |->
                        IF u = t
                        THEN [pc |-> "run", sig |-> sig, arg |-> arg,
                              pos |-> 1, ret |-> None,
                              overlapped |-> busy # {}]
                        ELSE IF u \in busy
                        THEN [frames[u] EXCEPT !.overlapped = TRUE]
                        ELSE frames[u]]
                  /\ locals' = [locals EXCEPT ![frame_of(t)] = fresh_acc(sig)]
    /\ UNCHANGED <<series, other, window_size>>

\* one iteration of the running call of t, or its return once the iterator
\* is exhausted
calculate_step(t) ==
    /\ frames[t].pc = "run"
    /\ LET f   == frames[t]
           s   == Input(f.arg)
           acc == locals[frame_of(t)]
           ret(v)  == /\ frames' = [frames EXCEPT ![t].pc = "done",
                                                  ![t].ret = v]
                      /\ UNCHANGED locals
           next(a) == /\ frames' = [frames EXCEPT ![t].pos = f.pos + 1]
                      /\ locals' = [locals EXCEPT ![frame_of(t)] = a]
       IN  CASE f.sig = "PriceDifference" -> ret(price_diff(s))
             [] f.sig = "MinPrice" ->
                  IF f.pos <= Len(s)
                  THEN \E m \in f64_min(acc.fold, s[f.pos]) :
                          next([acc EXCEPT !.fold = m])
                  ELSE ret(Some(acc.fold))
             [] f.sig = "MaxPrice" ->
                  IF f.pos <= Len(s)
                  THEN \E m \in f64_max(acc.fold, s[f.pos]) :
                          next([acc EXCEPT !.fold = m])
                  ELSE ret(Some(acc.fold))
             [] f.sig = "WindowedSMA" ->
                  LET w == windows(window_size, s)
                  IN  IF f.pos <= Len(w)
                      THEN next([acc EXCEPT !.out =
                                   Append(acc.out,
                                          window_means(w)[f.pos])])
                      ELSE ret(Some(acc.out))
    /\ UNCHANGED <<series, other, window_size>>

ConcNext ==
    \/ \E t \in Threads : calculate_begin(t) /\ UNCHANGED <<called, result, mainvars>>
    \/ \E t \in Threads : calculate_step(t) /\ UNCHANGED <<called, result, mainvars>>

SpecConc == ConcInit /\ [][ConcNext]_vars

(***************************************************************************)
(* Properties of the signal calculations, checked under Spec.              *)
(***************************************************************************)
IsFinite(x) == x[1] = "fin" \/ x[1] = "nzero"
Max0(i)     == IF i < 0 THEN 0 ELSE i
Occurs(x, s) == \E i \in 1..Len(s) : s[i] = x

\* C1: every signal returns None on the empty series.
C1_EmptySeriesIsNone ==
    (called # "none" /\ series = <<>>) => IsNone(result)

C1_Witness ==
    called = "PriceDifference" /\ series = <<>> /\ IsNone(result)

\* C2: on a non-empty series MinPrice returns Some(m) with m an element of
\* the series and m <= x for every element x, and MaxPrice returns Some(M)
\* with M an element of the series and x <= M for every element x.
C2_MinMaxAreExtremes ==
    /\ (called = "MinPrice" /\ series # <<>>) =>
          /\ IsSome(result)
          /\ Occurs(result[2], series)
          /\ \A i \in 1..Len(series) : FLe(result[2], series[i])
    /\ (called = "MaxPrice" /\ series # <<>>) =>
          /\ IsSome(result)
          /\ Occurs(result[2], series)
          /\ \A i \in 1..Len(series) : FLe(series[i], result[2])

C4_ZeroFirstRelIsAbs ==
    (called = "PriceDifference" /\ series # <<>> /\ FEq(series[1], PosZero)) =>
       /\ IsSome(result)
       /\ result[2][2] = result[2][1]
       /\ ~IsZero(price_diff_denominator(series[1]))

C4_Witness ==
    /\ called = "PriceDifference"
    /\ Len(series) >= 2
    /\ series[1] = PosZero
    /\ series[Len(series)] = Fin(2, 1)
    /\ result = Some(<<Fin(2, 1), Fin(2, 1)>>)

\* C5: WindowedSMA returns None exactly when the series is empty or the
\* window size is at most 1, and Some otherwise, also for a window longer
\* than the series.
C5_SmaNoneIffEmptyOrSmallWindow ==
    called = "WindowedSMA" =>
       /\ IsNone(result) <=> (series = <<>> \/ window_size <= 1)
       /\ (series # <<>> /\ window_size >= 2) => IsSome(result)

C5_Witness ==
    /\ called = "WindowedSMA"
    /\ series # <<>>
    /\ window_size = 1
    /\ IsNone(result)

\* C6: for a non-empty series and a window size n > 1, WindowedSMA returns
\* max(0, len - n + 1) entries.
C6_SmaLength ==
    (called = "WindowedSMA" /\ series # <<>> /\ window_size > 1) =>
       /\ IsSome(result)
       /\ Len(result[2]) = Max0(Len(series) - window_size + 1)

C6_Witness ==
    /\ called = "WindowedSMA"
    /\ window_size = Len(series)
    /\ window_size > 1
    /\ IsSome(result)
    /\ Len(result[2]) = 1

\* C7: for 2 <= n <= len, entry i (from 0) of the WindowedSMA result is the
\* sum of s[i], ..., s[i+n-1] divided by n.
C7_SmaEntries ==
    (called = "WindowedSMA" /\ series # <<>>
        /\ 2 <= window_size /\ window_size <= Len(series)) =>
       /\ IsSome(result)
       /\ \A i \in 0..(Len(series) - window_size) :
             result[2][i + 1] =
                FDiv(sum(SubSeq(series, i + 1, i + window_size)),
                     AsF64(window_size))

C7_Witness ==
    /\ called = "WindowedSMA"
    /\ window_size = 2
    /\ series = <<Fin(1, 1), Fin(2, 1), Fin(-1, 1)>>
    /\ result = Some(<<Fin(3, 2), Fin(1, 2)>>)

\* C8: no call of a signal panics: every call returns Some or None, for every
\* series and every window size, 0 and sizes beyond the series included.
C8_NeverPanics ==
    called # "none" => (IsSome(result) \/ IsNone(result))

C8_Witness ==
    /\ called = "WindowedSMA"
    /\ window_size = 0
    /\ series # <<>>
    /\ IsNone(result)

(***************************************************************************)
(* Properties of main, checked under SpecMain.                             *)
(***************************************************************************)
DataRows == {i \in 1..Len(stdout) : stdout[i][1] = "row"}

\* the symbols, in order, whose fetched series is not empty, among the first
\* k symbols
RECURSIVE SymbolsWithData(_)
SymbolsWithData(k) ==
    IF k = 0 THEN <<>>
    ELSE IF fetched[k] # <<>> THEN Append(SymbolsWithData(k - 1), symbols[k])
    ELSE SymbolsWithData(k - 1)

\* C9 as stated: once main has processed the list, it has printed one data
\* row for every symbol.
C9_OneRowPerSymbol ==
    mpc = "done" => Cardinality(DataRows) = Len(symbols)

\* C9 amended: the data rows printed are, in order, those of the symbols
\* processed so far whose fetched series is not empty; once main has
\* processed the list every symbol has been fetched.
C9_OneRowPerNonEmptySeries ==
    /\ Len(stdout) > 0 =>
          /\ stdout[1] = Header
          /\ DataRows = 2..Len(stdout)
          /\ [i \in 1..(Len(stdout) - 1) |-> stdout[i + 1][2]]
                = SymbolsWithData(Len(fetched))
    /\ Len(stdout) = 0 => fetched = <<>>
    /\ mpc = "done" => Len(fetched) = Len(symbols)

C9_Witness ==
    /\ mpc = "done"
    /\ Len(symbols) = 2
    /\ fetched[1] = <<>>
    /\ fetched[2] # <<>>
    /\ Cardinality(DataRows) = 1

(***************************************************************************)
(* Properties of concurrent calls, checked under SpecConc.                 *)
(***************************************************************************)
\* every call that has returned returned what the same call returns alone
ReturnsAsAlone ==
    \A t \in Threads :
       frames[t].pc = "done" =>
          frames[t].ret \in
             calculate(frames[t].sig, window_size, Input(frames[t].arg))

\* C10: under every interleaving of calls on the shared signals, each call
\* returns what it returns alone on its input, and no step of a call changes
\* a series or the window size.
C10_CallsIndependent ==
    /\ []ReturnsAsAlone
    /\ [][series' = series /\ other' = other /\ window_size' = window_size]_vars

C10_Witness ==
    /\ \A t \in Threads :
          /\ frames[t].pc = "done"
          /\ frames[t].overlapped
          /\ frames[t].arg = "series"
    /\ frames["t1"].sig = "MinPrice"
    /\ frames["t2"].sig = "MaxPrice"
    /\ series = <<Fin(2, 1), Fin(1, 1)>>
    /\ frames["t1"].ret = Some(Fin(1, 1))
    /\ frames["t2"].ret = Some(Fin(2, 1))

====
